---- MODULE Spec2Model ----
(***************************************************************************)
(* The recording / analysis session of the voice-analytics application:   *)
(* the App component (state, refs, handlers, route effect), the           *)
(* MediaRecorder / getUserMedia / setInterval objects it drives, the      *)
(* access-log store written by saveRecord, and the share link: its text   *)
(* as handleShare encodes it and as the route check decodes it.           *)
(*                                                                         *)
(* Every handler runs to completion (the event loop is single-threaded);   *)
(* an await whose completion changes shared state is a separate step.     *)
(* The state updates of one handler are committed together, and the        *)
(* useEffect([appState]) that follows a committed change of appState runs  *)
(* before any other event is handled.                                      *)
(*                                                                         *)
(* Spec is the recording session of one page load.  SpecShare is the       *)
(* session of a visitor who shares the result on screen and opens links,   *)
(* SpecCopy the sharing of one result with the browser's scheduling.       *)
(* SpecStore is the dashboard listing and deleting the records of the      *)
(* store while sessions save to it, SpecOpen the same dashboard opening a  *)
(* database left by an older version.  SpecViz is the recording session    *)
(* with the Visualizer it renders while recording.  SpecAuto is the        *)
(* recording session left alone, with fairness.                            *)
(***************************************************************************)
EXTENDS Integers, FiniteSets, Sequences, TLC

\* Number of start requests (clicks on the record button) in one page load.
MaxStarts == 2

\* The recording cap in seconds: `if (prev >= 15)`.
CAP == 15

\* Number of clicks on the share button in one page load.
MaxShares == 2

\* Length of the text fields of a shared analysis, in characters.
MaxText == 1

\* The largest overallScore: "(0-100)".
MaxScore == 100

\* Number of records ever saved to the access_logs store.
MaxRecords == 3

\* The last instant of Date.now(), in clock ticks.
MaxTime == 2

\* Number of store requests of the dashboard in flight at once.
MaxPending == 2

\* Animation frame ids of one draw loop are counted modulo MaxFrames.
MaxFrames == 2

Ids == 1..MaxStarts

\* The database version and the names of the log store and of the store of
\* the earlier version.
DB_VERSION == 2
STORE_NAME == "access_logs"
OldStore == "assessments"

\* AppState enum.
AppStates == {"IDLE", "RECORDING", "PROCESSING", "RESULT", "ERROR", "ADMIN"}

\* window.location.pathname / hash as the route check and reset read them.
Pathnames == {"/", "/admin"}
Hashes == {"", "#/admin", "#admin"}

----------------------------------------------------------------------------
\* Text.  A string is the sequence of its character codes; a binary string
\* (btoa's argument, atob's result) is a sequence of bytes; a base64 text is
\* the sequence of its digits' values, 62 being '+' and 63 '/', with PAD for
\* '=', SPACE for a space and BANG for a character outside the alphabet.
PAD == 64
SPACE == 65
BANG == 66

Range(q) == {q[i] : i \in DOMAIN q}

\* unescape(encodeURIComponent(str)): the UTF-8 bytes of str (characters of
\* the basic plane).
utf8Encode(str) ==
  LET enc[s \in Seq(Int)] ==
        IF s = <<>> THEN <<>>
        ELSE (IF s[1] < 128 THEN <<s[1]>>
              ELSE IF s[1] < 2048
              THEN <<192 + (s[1] \div 64), 128 + (s[1] % 64)>>
              ELSE <<224 + (s[1] \div 4096), 128 + ((s[1] \div 64) % 64),
                     128 + (s[1] % 64)>>)
             \o enc[Tail(s)]
  IN  enc[str]

\* decodeURIComponent(escape(bin)): the characters of the UTF-8 bytes; -1
\* stands where the bytes are malformed (decodeURIComponent throws URIError).
utf8Decode(bin) ==
  LET dec[b \in Seq(Int)] ==
        IF b = <<>> THEN <<>>
        ELSE IF b[1] < 128 THEN <<b[1]>> \o dec[Tail(b)]
        ELSE IF /\ b[1] \in 192..223 /\ Len(b) >= 2 /\ b[2] \in 128..191
        THEN <<(b[1] - 192) * 64 + (b[2] - 128)>> \o dec[SubSeq(b, 3, Len(b))]
        ELSE IF /\ b[1] \in 224..239 /\ Len(b) >= 3
                /\ b[2] \in 128..191 /\ b[3] \in 128..191
        THEN <<(b[1] - 224) * 4096 + (b[2] - 128) * 64 + (b[3] - 128)>>
             \o dec[SubSeq(b, 4, Len(b))]
        ELSE <<-1>>
  IN  dec[bin]

\* window.btoa: three bytes to four digits, the tail padded with '='.
btoa(bin) ==
  LET enc[b \in Seq(Int)] ==
        IF Len(b) = 0 THEN <<>>
        ELSE IF Len(b) = 1
        THEN <<b[1] \div 4, (b[1] % 4) * 16, PAD, PAD>>
        ELSE IF Len(b) = 2
        THEN <<b[1] \div 4, (b[1] % 4) * 16 + (b[2] \div 16),
               (b[2] % 16) * 4, PAD>>
        ELSE <<b[1] \div 4, (b[1] % 4) * 16 + (b[2] \div 16),
               (b[2] % 16) * 4 + (b[3] \div 64), b[3] % 64>>
             \o enc[SubSeq(b, 4, Len(b))]
  IN  enc[bin]

\* window.atob, first half: ASCII whitespace is removed, then up to two '='
\* at the end of a text whose length is a multiple of four.
atobStrip(text) ==
  LET cut[t \in Seq(Int)] ==
        IF Len(t) > 0 /\ Len(t) % 4 = 0 /\ t[Len(t)] = PAD
        THEN IF t[Len(t) - 1] = PAD
             THEN SubSeq(t, 1, Len(t) - 2)
             ELSE SubSeq(t, 1, Len(t) - 1)
        ELSE t
  IN  cut[SelectSeq(text, LAMBDA c : c # SPACE)]

\* atob throws InvalidCharacterError: a remaining length of 1 modulo 4, or a
\* remaining character that is not a base64 digit.
atobThrows(text) ==
  LET bad[t \in Seq(Int)] ==
        \/ Len(t) % 4 = 1
        \/ \E i \in DOMAIN t : t[i] > 63
  IN  bad[atobStrip(text)]

\* atob, second half: four digits to three bytes; the bits left over by a
\* tail of two or three digits are dropped.
atob(text) ==
  LET dec[t \in Seq(Int)] ==
        IF Len(t) < 2 THEN <<>>
        ELSE IF Len(t) = 2 THEN <<t[1] * 4 + (t[2] \div 16)>>
        ELSE IF Len(t) = 3
        THEN <<t[1] * 4 + (t[2] \div 16), (t[2] % 16) * 16 + (t[3] \div 4)>>
        ELSE <<t[1] * 4 + (t[2] \div 16), (t[2] % 16) * 16 + (t[3] \div 4),
               (t[3] % 4) * 64 + t[4]>>
             \o dec[SubSeq(t, 5, Len(t))]
  IN  dec[atobStrip(text)]

\* new URLSearchParams(window.location.search).get('share') for the query
\* `?share=<text>`: '+' is read as a space; '/' and '=' are kept.
searchParamsGet(text) ==
  [i \in DOMAIN text |-> IF text[i] = 62 THEN SPACE ELSE text[i]]

----------------------------------------------------------------------------
\* JSON.  A VoiceAnalysisResult is held as the JSON text of three of its
\* parts: overallScore, metrics, and the text fields taken together; <<>> is
\* a part that is missing.  The JSON text of the whole is
\* `{` overallScore `,` metrics `,` text `}`.
LBRACE == 123
RBRACE == 125
COMMA == 44
QUOTE == 34

\* The JSON text of a number from 0 to 999.
digits(n) ==
  IF n < 10 THEN <<48 + n>>
  ELSE IF n < 100 THEN <<48 + (n \div 10), 48 + (n % 10)>>
  ELSE <<48 + (n \div 100), 48 + ((n \div 10) % 10), 48 + (n % 10)>>

isNumber(tok) ==
  /\ tok # <<>>
  /\ \A i \in DOMAIN tok : tok[i] \in 48..57
  /\ Len(tok) > 1 => tok[1] # 48

isString(tok) ==
  /\ Len(tok) >= 2
  /\ tok[1] = QUOTE
  /\ tok[Len(tok)] = QUOTE
  /\ \A i \in 2..(Len(tok) - 1) : tok[i] # QUOTE

\* JavaScript truthiness of a part: a missing part, the number 0 and the
\* empty string are falsy.
truthy(tok) ==
  /\ tok # <<>>
  /\ tok # <<48>>
  /\ tok # <<QUOTE, QUOTE>>

\* The one metrics object of the model, as JSON text.
MetricsText == <<109>>

JSONstringify(r) ==
  <<LBRACE>> \o r.overallScore \o <<COMMA>> \o r.metrics \o <<COMMA>>
  \o r.text \o <<RBRACE>>

\* The places of the separators in a JSON text.
Commas(str) == {i \in DOMAIN str : str[i] = COMMA}
First(S) == CHOOSE i \in S : \A j \in S : i <= j
Last(S) == CHOOSE i \in S : \A j \in S : i >= j

\* JSON.parse throws SyntaxError.
JSONthrows(str) ==
  LET bad[t \in Seq(Int)] ==
        \/ Len(t) < 4
        \/ t[1] # LBRACE
        \/ t[Len(t)] # RBRACE
        \/ Cardinality(Commas(t)) # 2
        \/ \E i \in DOMAIN t : t[i] < 32
        \/ LET score == SubSeq(t, 2, First(Commas(t)) - 1)
               metrics == SubSeq(t, First(Commas(t)) + 1, Last(Commas(t)) - 1)
               text == SubSeq(t, Last(Commas(t)) + 1, Len(t) - 1)
           IN  \/ ~(score = <<>> \/ isNumber(score) \/ isString(score))
               \/ ~(metrics = <<>> \/ metrics = MetricsText)
               \/ \E i \in DOMAIN text : text[i] \in {LBRACE, RBRACE, QUOTE}
  IN  bad[str]

\* JSON.parse of a text it accepts.
JSONparse(str) ==
  LET obj[t \in Seq(Int)] ==
        [overallScore |-> SubSeq(t, 2, First(Commas(t)) - 1),
         metrics |-> SubSeq(t, First(Commas(t)) + 1, Last(Commas(t)) - 1),
         text |-> SubSeq(t, Last(Commas(t)) + 1, Len(t) - 1)]
  IN  obj[str]

\* Values of the `analysis` state: null or an object.
NoAnalysis == [null |-> TRUE]
\* An analysis with every field of the schema, and one without its metrics.
Complete(n) == [overallScore |-> digits(n), metrics |-> MetricsText,
                text |-> <<>>]
Partial == [overallScore |-> digits(74), metrics |-> <<>>, text |-> <<>>]
AnalysisResults == {Complete(74), Partial}

\* What one analyzeVoice call meets: blobToBase64 rejects, generateContent
\* rejects, or the call returns a response.
Responses ==
  {"encodeError", "apiError", "emptyText", "badJson", "complete", "partial"}

\* response.text of a response: empty, not JSON, JSON with every schema
\* field, JSON without some of them.
responseText(resp) ==
  IF resp = "complete" THEN JSONstringify(Complete(74))
  ELSE IF resp = "partial" THEN JSONstringify(Partial)
  ELSE IF resp = "badJson" THEN <<LBRACE>>
  ELSE <<>>

\* handleShare: `btoa(unescape(encodeURIComponent(JSON.stringify(analysis))))`,
\* appended as it is to `?share=`.
encodeShare(r) == btoa(utf8Encode(JSONstringify(r)))

\* The `share` query text of window.location.search: <<>> when there is none,
\* the link of an analysis with score 74, of one with score 0, or text that is
\* not base64.
ShareParams == {<<>>, encodeShare(Complete(74)), encodeShare(Complete(0)),
                <<BANG>>}

\* `stream`, `mediaRecorderRef.current`, `timerIntervalRef.current`: 0 is null.
Null == 0
\* `audioBlob`: NoBlob is null, otherwise the number of chunks in the Blob.
NoBlob == -1

\* A link on its way to the clipboard or on it: the `share` text of the URL
\* and, as history, the analysis handleShare built it from.
NoLink == [text |-> <<>>, of |-> NoAnalysis]

\* A handleAnalysis call: where it is suspended (pc) and the result
\* analyzeVoice gave it.
NoCall == [pc |-> "none", result |-> NoAnalysis]
\* A handleAnalysis call that has returned: its locals are gone.
Returned == [pc |-> "done", result |-> NoAnalysis]

VARIABLES
  appState, stream, audioBlob, analysis, errorMsg, timer,   \* useState
  mediaRecorderRef, chunksRef, timerIntervalRef,            \* useRef
  acq,        \* per start request: state of its getUserMedia call
  acqStream,  \* per start request: `stream` as captured by its closure
  recorder,   \* per MediaRecorder: none / recording / stopping / inactive
  track,      \* per MediaStream: none / live / ended
  interval,   \* per setInterval timer: none / live / cleared
  call,       \* per handleAnalysis call: where it is suspended
  store,      \* records of the access_logs object store
  nextId,     \* next start request
  pathname, hash, share,                                    \* window.location
  effectPending, \* the [appState] effect has yet to run for this commit
  isCopied,      \* useState: the share button shows its acknowledgment
  copying,       \* clipboard.writeText promises of this page, oldest first
  copyTimeouts,  \* pending `setTimeout(() => setIsCopied(false), 2000)`
  shareClicks,   \* clicks on the share button in this page load
  clipboard,     \* the system clipboard: the link last written to it
  linked,        \* history: the analysis whose link this page was opened by
  unhandled,     \* a promise of this page was rejected with no handler
  now,           \* Date.now()
  drawn,         \* the ids crypto.randomUUID() has returned so far
  records,       \* AdminDashboard useState: the rows shown
  loading,       \* AdminDashboard useState
  loadCalls,     \* loadRecords calls awaiting getAllRecords
  delCalls,      \* handleDelete calls awaiting deleteRecord: their ids
  dbVersion,     \* version of the VoiceAnalyticsDB database, 0: none
  dbStores,      \* names of its object stores
  vizMounted,    \* a Visualizer is mounted and its effect has run
  vizStream,     \* the `stream` prop that effect run saw
  sourceRef,     \* Visualizer useRef: the stream its source node reads
  animationFrameRef, \* Visualizer useRef: the frame id it holds, <<>>: none
  frames         \* the ids of the animation frames pending

sess == <<appState, stream, audioBlob, analysis, errorMsg, timer>>
refs == <<mediaRecorderRef, chunksRef, timerIntervalRef>>
devs == <<acq, acqStream, recorder, track, interval, nextId>>
io   == <<call, store>>
loc  == <<pathname, hash, share>>
shr  == <<isCopied, copying, copyTimeouts, shareClicks, clipboard, linked,
          unhandled>>
adm  == <<now, drawn, records, loading, loadCalls, delCalls>>
db   == <<dbVersion, dbStores>>
viz  == <<vizMounted, vizStream, sourceRef, animationFrameRef, frames>>
vars == <<sess, refs, devs, io, loc, effectPending, shr, adm, db, viz>>

----------------------------------------------------------------------------
\* window.location tests of checkRoute and resetApp.

isPathAdmin(p) == p = "/admin"
isHashAdmin(h) == h = "#/admin" \/ h = "#admin"

\* `hash.includes('admin') || pathname.includes('admin')`
includesAdmin(p, h) == p = "/admin" \/ h = "#/admin" \/ h = "#admin"

\* The share branch of checkRoute, up to JSON.parse: atob,
\* decodeURIComponent(escape(..)) or JSON.parse throws on the parameter `s`.
decodeThrows(s) ==
  \/ atobThrows(s)
  \/ -1 \in Range(utf8Decode(atob(s)))
  \/ JSONthrows(utf8Decode(atob(s)))

\* parsedAnalysis, when nothing was thrown.
decodeShare(s) == JSONparse(utf8Decode(atob(s)))

\* `parsedAnalysis.overallScore && parsedAnalysis.metrics`: truthiness.
adoptable(s) ==
  truthy(decodeShare(s).overallScore) /\ truthy(decodeShare(s).metrics)

----------------------------------------------------------------------------
Init ==
  /\ appState = "IDLE"
  /\ stream = Null
  /\ audioBlob = NoBlob
  /\ analysis = NoAnalysis
  /\ errorMsg = ""
  /\ timer = 0
  /\ mediaRecorderRef = Null
  /\ chunksRef = 0
  /\ timerIntervalRef = Null
  /\ acq = [i \in Ids |-> "none"]
  /\ acqStream = [i \in Ids |-> Null]
  /\ recorder = [i \in Ids |-> "none"]
  /\ track = [i \in Ids |-> "none"]
  /\ interval = [i \in Ids |-> "none"]
  /\ call = [i \in Ids |-> NoCall]
  /\ store = {}
  /\ nextId = 1
  /\ pathname \in Pathnames
  /\ hash \in Hashes
  /\ share \in ShareParams
  /\ effectPending = TRUE
  /\ isCopied = FALSE
  /\ copying = <<>>
  /\ copyTimeouts = 0
  /\ shareClicks = 0
  /\ clipboard = NoLink
  /\ linked = NoAnalysis
  /\ unhandled = FALSE
  /\ now = 0
  /\ drawn = {}
  /\ records = <<>>
  /\ loading = TRUE
  /\ loadCalls = 0
  /\ delCalls = <<>>
  /\ dbVersion = DB_VERSION
  /\ dbStores = {STORE_NAME}
  /\ vizMounted = FALSE
  /\ vizStream = Null
  /\ sourceRef = Null
  /\ animationFrameRef = <<>>
  /\ frames = {}

----------------------------------------------------------------------------
\* Mutant of checkRoute: the share parameter is looked at before the admin
\* markers.
checkRouteShareFirst(st, an, p, h, s) ==
  LET shareData == searchParamsGet(s) IN
  IF shareData # <<>> /\ st = "IDLE"
  THEN IF decodeThrows(shareData)
       THEN [st |-> st, an |-> an, p |-> "/", h |-> "", s |-> <<>>]
       ELSE IF adoptable(shareData)
       THEN [st |-> "RESULT", an |-> decodeShare(shareData),
             p |-> p, h |-> h, s |-> s]
       ELSE [st |-> st, an |-> an, p |-> p, h |-> h, s |-> s]
  ELSE IF isPathAdmin(p) \/ isHashAdmin(h)
  THEN [st |-> "ADMIN", an |-> an, p |-> p, h |-> h, s |-> s]
  ELSE [st |-> st, an |-> an, p |-> p, h |-> h, s |-> s]
\* Mutant of checkRoute: the share branch does not test `appState === IDLE`.
checkRouteAnyState(st, an, p, h, s) ==
  LET shareData == searchParamsGet(s) IN
  IF isPathAdmin(p) \/ isHashAdmin(h)
  THEN [st |-> "ADMIN", an |-> an, p |-> p, h |-> h, s |-> s]
  ELSE IF shareData # <<>>
  THEN IF decodeThrows(shareData)
       THEN [st |-> st, an |-> an, p |-> "/", h |-> "", s |-> <<>>]
       ELSE IF adoptable(shareData)
       THEN [st |-> "RESULT", an |-> decodeShare(shareData),
             p |-> p, h |-> h, s |-> s]
       ELSE [st |-> st, an |-> an, p |-> p, h |-> h, s |-> s]
  ELSE [st |-> st, an |-> an, p |-> p, h |-> h, s |-> s]
\* checkRoute, run with the appState `st` of the render whose effect installed
\* it, on the location (p, h, s).  It changes appState, analysis and the
\* location only; the result is the value of each after the call.
checkRoute(st, an, p, h, s) ==
  LET shareData == searchParamsGet(s) IN
  IF isPathAdmin(p) \/ isHashAdmin(h)
  THEN [st |-> "ADMIN", an |-> an, p |-> p, h |-> h, s |-> s]
  ELSE IF shareData # <<>> /\ st = "IDLE"
  THEN IF decodeThrows(shareData)
       THEN \* catch: window.history.replaceState(null, '', '/')
            [st |-> st, an |-> an, p |-> "/", h |-> "", s |-> <<>>]
       ELSE IF adoptable(shareData)
       THEN [st |-> "RESULT", an |-> decodeShare(shareData),
             p |-> p, h |-> h, s |-> s]
       ELSE [st |-> st, an |-> an, p |-> p, h |-> h, s |-> s]
  ELSE [st |-> st, an |-> an, p |-> p, h |-> h, s |-> s]

\* Mutant of RunEffect: the effect calls checkRoute only when the session is
\* IDLE.
RunEffectIdleOnly ==
  /\ effectPending
  /\ LET r == IF appState = "IDLE"
              THEN checkRoute(appState, analysis, pathname, hash, share)
              ELSE [st |-> appState, an |-> analysis, p |-> pathname,
                    h |-> hash, s |-> share] IN
       /\ appState' = r.st
       /\ analysis' = r.an
       /\ pathname' = r.p
       /\ hash' = r.h
       /\ share' = r.s
       /\ effectPending' = (r.st # appState)
  /\ UNCHANGED <<stream, audioBlob, errorMsg, timer, refs, devs, io>>
  /\ UNCHANGED <<shr, adm, db, viz>>
\* useEffect(..., [appState]): check on mount and after every commit that
\* changed appState.
RunEffect ==
  /\ effectPending
  /\ LET r == checkRoute(appState, analysis, pathname, hash, share) IN
       /\ appState' = r.st
       /\ analysis' = r.an
       /\ pathname' = r.p
       /\ hash' = r.h
       /\ share' = r.s
       /\ effectPending' = (r.st # appState)
  /\ UNCHANGED <<stream, audioBlob, errorMsg, timer, refs, devs, io>>
  /\ UNCHANGED <<shr, adm, db, viz>>

\* The hashchange listener: the user edits the fragment, or double-clicks the
\* status badge (handleSecretAdmin sets '#/admin').
HashChange(h) ==
  /\ ~effectPending
  /\ h # hash
  /\ LET r == checkRoute(appState, analysis, pathname, h, share) IN
       /\ appState' = r.st
       /\ analysis' = r.an
       /\ pathname' = r.p
       /\ hash' = r.h
       /\ share' = r.s
       /\ effectPending' = (r.st # appState)
  /\ UNCHANGED <<stream, audioBlob, errorMsg, timer, refs, devs, io>>
  /\ UNCHANGED <<shr, adm, db, viz>>

----------------------------------------------------------------------------
\* stopRecording, piece by piece.

\* `if (mediaRecorderRef.current && state !== 'inactive') stop()`: the recorder
\* becomes inactive at once and its dataavailable / stop events are queued.
StopRecorder(rec, ref) ==
  IF ref # Null /\ rec[ref] = "recording"
  THEN [rec EXCEPT ![ref] = "stopping"]
  ELSE rec

\* Mutant of ClearTimer: the clearInterval call is left out.
ClearTimerOmitted(iv, ref) == iv

\* `if (timerIntervalRef.current) clearInterval(timerIntervalRef.current)`
ClearTimer(iv, ref) ==
  IF ref # Null /\ iv[ref] = "live"
  THEN [iv EXCEPT ![ref] = "cleared"]
  ELSE iv

\* `if (stream) stream.getTracks().forEach(track => track.stop())`, with the
\* `stream` of the render that created this stopRecording.
StopTracks(tr, s) ==
  IF s # Null
  THEN [tr EXCEPT ![s] = "ended"]
  ELSE tr

\* Mutant of stopRecording: setAppState(PROCESSING) is left out.
stopRecordingNoTransition(s) ==
  /\ recorder' = StopRecorder(recorder, mediaRecorderRef)
  /\ interval' = ClearTimer(interval, timerIntervalRef)
  /\ track' = StopTracks(track, s)
  /\ UNCHANGED <<appState, effectPending>>

\* stopRecording as created by a render in which `stream` was s.
stopRecording(s) ==
  /\ recorder' = StopRecorder(recorder, mediaRecorderRef)
  /\ interval' = ClearTimer(interval, timerIntervalRef)
  /\ track' = StopTracks(track, s)
  /\ appState' = "PROCESSING"
  /\ effectPending' = (appState # "PROCESSING")

\* The updater of the interval callback: `prev >= 15`.
capReached(prev) == prev >= CAP

----------------------------------------------------------------------------
\* The record button (rendered in IDLE): startRecording up to its await.  The
\* handler, and the stopRecording it will hand to the interval, belong to the
\* current render and keep its `stream`.
StartClick ==
  /\ ~effectPending
  /\ appState = "IDLE"
  /\ nextId <= MaxStarts
  /\ acq' = [acq EXCEPT ![nextId] = "pending"]
  /\ acqStream' = [acqStream EXCEPT ![nextId] = stream]
  /\ nextId' = nextId + 1
  /\ UNCHANGED <<sess, refs, recorder, track, interval, io, loc, effectPending>>
  /\ UNCHANGED <<shr, adm, db, viz>>

\* getUserMedia resolves and the rest of the try block runs.
AcquireOk(i) ==
  /\ ~effectPending
  /\ acq[i] = "pending"
  /\ acq' = [acq EXCEPT ![i] = "done"]
  /\ stream' = i
  /\ track' = [track EXCEPT ![i] = "live"]
  /\ mediaRecorderRef' = i
  /\ chunksRef' = 0
  /\ recorder' = [recorder EXCEPT ![i] = "recording"]
  /\ appState' = "RECORDING"
  /\ timer' = 0
  /\ timerIntervalRef' = i
  /\ interval' = [interval EXCEPT ![i] = "live"]
  /\ effectPending' = (appState # "RECORDING")
  /\ UNCHANGED <<audioBlob, analysis, errorMsg, acqStream, nextId, io, loc>>
  /\ UNCHANGED <<shr, adm, db, viz>>

\* getUserMedia resolves but `new MediaRecorder(audioStream)` throws: the catch
\* block runs after setStream.
AcquireOkRecorderThrows(i) ==
  /\ ~effectPending
  /\ acq[i] = "pending"
  /\ acq' = [acq EXCEPT ![i] = "done"]
  /\ stream' = i
  /\ track' = [track EXCEPT ![i] = "live"]
  /\ errorMsg' = "errorMic"
  /\ appState' = "ERROR"
  /\ effectPending' = (appState # "ERROR")
  /\ UNCHANGED <<audioBlob, analysis, timer, refs, acqStream, recorder,
                 interval, nextId, io, loc>>
  /\ UNCHANGED <<shr, adm, db, viz>>

\* Mutant of AcquireDenied: the rejection is swallowed, nothing is shown.
AcquireDeniedSilent(i) ==
  /\ ~effectPending
  /\ acq[i] = "pending"
  /\ acq' = [acq EXCEPT ![i] = "denied"]
  /\ UNCHANGED <<sess, refs, acqStream, recorder, track, interval, nextId,
                 io, loc, effectPending>>
  /\ UNCHANGED <<shr, adm, db, viz>>
\* getUserMedia rejects (permission denied): the catch block.
AcquireDenied(i) ==
  /\ ~effectPending
  /\ acq[i] = "pending"
  /\ acq' = [acq EXCEPT ![i] = "denied"]
  /\ errorMsg' = "errorMic"
  /\ appState' = "ERROR"
  /\ effectPending' = (appState # "ERROR")
  /\ UNCHANGED <<stream, audioBlob, analysis, timer, refs, acqStream,
                 recorder, track, interval, nextId, io, loc>>
  /\ UNCHANGED <<shr, adm, db, viz>>

\* One firing of the interval started by start request i.
TimerTick(i) ==
  /\ ~effectPending
  /\ interval[i] = "live"
  /\ IF capReached(timer)
     THEN /\ stopRecording(acqStream[i])
          /\ UNCHANGED timer
     ELSE /\ timer' = timer + 1
          /\ UNCHANGED <<appState, recorder, interval, track, effectPending>>
  /\ UNCHANGED <<stream, audioBlob, analysis, errorMsg, refs, acq, acqStream,
                 nextId, io, loc>>
  /\ UNCHANGED <<shr, adm, db, viz>>

\* The stop button (rendered in RECORDING): stopRecording of the current
\* render.
ManualStop ==
  /\ ~effectPending
  /\ appState = "RECORDING"
  /\ stopRecording(stream)
  /\ UNCHANGED <<stream, audioBlob, analysis, errorMsg, timer, refs, acq,
                 acqStream, nextId, io, loc>>
  /\ UNCHANGED <<shr, adm, db, viz>>

\* The queued events of a stopped recorder: dataavailable (pushed to
\* chunksRef.current only when e.data.size > 0), then onstop, which builds the
\* Blob from chunksRef.current and calls handleAnalysis up to its first await.
RecorderStopped(i, hasData) ==
  /\ ~effectPending
  /\ recorder[i] = "stopping"
  /\ recorder' = [recorder EXCEPT ![i] = "inactive"]
  /\ chunksRef' = IF hasData THEN chunksRef + 1 ELSE chunksRef
  /\ audioBlob' = chunksRef'
  /\ call' = [call EXCEPT ![i].pc = "analyze"]
  /\ UNCHANGED <<appState, stream, analysis, errorMsg, timer, mediaRecorderRef,
                 timerIntervalRef, acq, acqStream, track, interval, nextId,
                 store, loc, effectPending>>
  /\ UNCHANGED <<shr, adm, db, viz>>

----------------------------------------------------------------------------
\* handleAnalysis and saveRecord, one step per await.

\* analyzeVoice with a swallowing catch: the rejections of the two awaits are
\* turned into an object without fields.
analyzeVoiceSwallows(resp) ==
  IF resp \in {"encodeError", "apiError"}
  THEN [ok |-> TRUE, value |-> Partial]
  ELSE IF responseText(resp) = <<>> \/ JSONthrows(responseText(resp))
  THEN [ok |-> FALSE, value |-> NoAnalysis]
  ELSE [ok |-> TRUE, value |-> JSONparse(responseText(resp))]
\* analyzeVoice: the awaits reject, `if (!text) throw`, JSON.parse throws, or
\* `JSON.parse(text) as VoiceAnalysisResult` is returned as parsed; the catch
\* rethrows.
analyzeVoice(resp) ==
  IF resp \in {"encodeError", "apiError"}
  THEN [ok |-> FALSE, value |-> NoAnalysis]
  ELSE IF responseText(resp) = <<>>
  THEN [ok |-> FALSE, value |-> NoAnalysis]
  ELSE IF JSONthrows(responseText(resp))
  THEN [ok |-> FALSE, value |-> NoAnalysis]
  ELSE [ok |-> TRUE, value |-> JSONparse(responseText(resp))]

\* analyzeVoice resolves: setAnalysis(result), then saveRecord runs up to
\* `await initDB()`.  The completions of initDB and of getIP change nothing
\* but saveRecord's locals, so the call stays in "save" until saveRecord
\* settles.
AnalyzeOk(i, r) ==
  /\ ~effectPending
  /\ call[i].pc = "analyze"
  /\ analysis' = r
  /\ call' = [call EXCEPT ![i].pc = "save", ![i].result = r]
  /\ UNCHANGED <<appState, stream, audioBlob, errorMsg, timer, refs, devs,
                 store, loc, effectPending>>
  /\ UNCHANGED <<shr, adm, db, viz>>

\* analyzeVoice rejects: the catch block of handleAnalysis.
AnalyzeFail(i) ==
  /\ ~effectPending
  /\ call[i].pc = "analyze"
  /\ call' = [call EXCEPT ![i].pc = "failed"]
  /\ errorMsg' = "errorAnalysis"
  /\ appState' = "ERROR"
  /\ effectPending' = (appState # "ERROR")
  /\ UNCHANGED <<stream, audioBlob, analysis, timer, refs, devs, store, loc>>
  /\ UNCHANGED <<shr, adm, db, viz>>

\* `await analyzeVoice(audioBlob, language)` in handleAnalysis settles.
AnalyzeDone(i, resp) ==
  /\ call[i].pc = "analyze"
  /\ IF analyzeVoice(resp).ok
     THEN AnalyzeOk(i, analyzeVoice(resp).value)
     ELSE AnalyzeFail(i)

\* initDB rejects inside saveRecord's try: caught and logged, saveRecord
\* resolves and handleAnalysis goes on to setAppState(RESULT).
OpenFail(i) ==
  /\ ~effectPending
  /\ call[i].pc = "save"
  /\ call' = [call EXCEPT ![i] = Returned]
  /\ appState' = "RESULT"
  /\ effectPending' = (appState # "RESULT")
  /\ UNCHANGED <<stream, audioBlob, analysis, errorMsg, timer, refs, devs,
                 store, loc>>
  /\ UNCHANGED <<shr, adm, db, viz>>

\* What getIP resolves with: the address, or 'Unknown IP' from its own catch.
IpResults == {"ip", "Unknown IP"}

\* navigator.userAgent.
UserAgent == "userAgent"

\* The record saveRecord builds: `{id, timestamp: Date.now(), analysis, ip,
\* userAgent}`.
record(id, a, ip) ==
  [id |-> id, timestamp |-> now, analysis |-> a, ip |-> ip,
   userAgent |-> UserAgent]

\* The record saveRecord builds for call i once getIP has given `ip`.
VoiceRecord(i, ip) == record(i, call[i].result, ip)

\* Mutant of WriteOk: saveRecord resolves without adding the record.
WriteOkNoAdd(i, ip) ==
  /\ ~effectPending
  /\ call[i].pc = "save"
  /\ call' = [call EXCEPT ![i] = Returned]
  /\ appState' = "RESULT"
  /\ effectPending' = (appState # "RESULT")
  /\ UNCHANGED <<stream, audioBlob, analysis, errorMsg, timer, refs, devs,
                 store, loc, shr, adm, db, viz>>
\* Mutant of WriteOk: getIP has no catch, and a failed lookup ends saveRecord
\* in its own catch with nothing written.
WriteOkIpThrows(i, ip) ==
  /\ ~effectPending
  /\ call[i].pc = "save"
  /\ call' = [call EXCEPT ![i] = Returned]
  /\ store' = IF ip = "Unknown IP" THEN store
              ELSE store \cup {VoiceRecord(i, ip)}
  /\ appState' = "RESULT"
  /\ effectPending' = (appState # "RESULT")
  /\ UNCHANGED <<stream, audioBlob, analysis, errorMsg, timer, refs, devs, loc>>
  /\ UNCHANGED <<shr, adm, db, viz>>
\* initDB resolved, getIP resolved with `ip` and store.add succeeds: the
\* returned promise resolves and handleAnalysis goes on to
\* setAppState(RESULT).
WriteOk(i, ip) ==
  /\ ~effectPending
  /\ call[i].pc = "save"
  /\ call' = [call EXCEPT ![i] = Returned]
  /\ store' = store \cup {VoiceRecord(i, ip)}
  /\ appState' = "RESULT"
  /\ effectPending' = (appState # "RESULT")
  /\ UNCHANGED <<stream, audioBlob, analysis, errorMsg, timer, refs, devs, loc>>
  /\ UNCHANGED <<shr, adm, db, viz>>

\* initDB and getIP resolved and store.add fails (request.onerror rejects the
\* promise saveRecord returned).  saveRecord returns that promise without
\* awaiting it, so the rejection is not caught by saveRecord's try/catch:
\* `await saveRecord(result)` throws and the catch block of handleAnalysis
\* runs.
WriteFail(i) ==
  /\ ~effectPending
  /\ call[i].pc = "save"
  /\ call' = [call EXCEPT ![i] = Returned]
  /\ errorMsg' = "errorAnalysis"
  /\ appState' = "ERROR"
  /\ effectPending' = (appState # "ERROR")
  /\ UNCHANGED <<stream, audioBlob, analysis, timer, refs, devs, store, loc>>
  /\ UNCHANGED <<shr, adm, db, viz>>

----------------------------------------------------------------------------
\* Mutant of resetApp: setIsCopied(false) is left out.
resetAppKeepsCopied ==
  /\ ~effectPending
  /\ IF includesAdmin(pathname, hash)
     THEN pathname' = "/"
     ELSE pathname' = pathname
  /\ hash' = ""
  /\ share' = <<>>
  /\ appState' = "IDLE"
  /\ analysis' = NoAnalysis
  /\ audioBlob' = NoBlob
  /\ stream' = Null
  /\ errorMsg' = ""
  /\ effectPending' = (appState # "IDLE")
  /\ UNCHANGED <<timer, refs, devs, io, shr, adm, db, viz>>
\* resetApp: the header logo (every state but ADMIN) and the dashboard's back
\* button (ADMIN).
resetApp ==
  /\ ~effectPending
  /\ IF includesAdmin(pathname, hash)
     THEN pathname' = "/"            \* pushState({}, '', '/')
     ELSE pathname' = pathname       \* pushState({}, '', location.pathname)
  /\ hash' = ""
  /\ share' = <<>>
  /\ appState' = "IDLE"
  /\ analysis' = NoAnalysis
  /\ audioBlob' = NoBlob
  /\ stream' = Null
  /\ errorMsg' = ""
  /\ isCopied' = FALSE
  /\ effectPending' = (appState # "IDLE")
  /\ UNCHANGED <<timer, refs, devs, io, copying, clipboard, copyTimeouts,
                 shareClicks, linked, unhandled>>
  /\ UNCHANGED <<adm, db, viz>>

----------------------------------------------------------------------------
Next ==
  \/ RunEffect
  \/ \E h \in Hashes : HashChange(h)
  \/ StartClick
  \/ \E i \in Ids : AcquireOk(i)
  \/ \E i \in Ids : AcquireOkRecorderThrows(i)
  \/ \E i \in Ids : AcquireDenied(i)
  \/ \E i \in Ids : TimerTick(i)
  \/ ManualStop
  \/ \E i \in Ids, hasData \in BOOLEAN : RecorderStopped(i, hasData)
  \/ \E i \in Ids, resp \in Responses : AnalyzeDone(i, resp)
  \/ \E i \in Ids : OpenFail(i)
  \/ \E i \in Ids, ip \in IpResults : WriteOk(i, ip)
  \/ \E i \in Ids : WriteFail(i)
  \/ resetApp

Spec == Init /\ [][Next]_vars

----------------------------------------------------------------------------
\* Sharing: handleShare, the clipboard, and opening a link.

\* handleShare, the share button of the result view (rendered when appState is
\* RESULT and `analysis` is set): the link is built and handed to
\* navigator.clipboard.writeText.
handleShare ==
  /\ ~effectPending
  /\ appState = "RESULT"
  /\ analysis # NoAnalysis
  /\ shareClicks < MaxShares
  /\ shareClicks' = shareClicks + 1
  /\ copying' = Append(copying, [text |-> encodeShare(analysis),
                                 of |-> analysis])
  /\ UNCHANGED <<sess, refs, devs, io, loc, effectPending, isCopied,
                 copyTimeouts, clipboard, linked, unhandled>>
  /\ UNCHANGED <<adm, db, viz>>

\* Mutant of ClipboardOk: the callback sets no timeout.
ClipboardOkNoTimeout ==
  /\ ~effectPending
  /\ copying # <<>>
  /\ clipboard' = Head(copying)
  /\ copying' = Tail(copying)
  /\ isCopied' = TRUE
  /\ UNCHANGED <<sess, refs, devs, io, loc, effectPending, shareClicks, linked,
                 copyTimeouts, unhandled>>
  /\ UNCHANGED <<adm, db, viz>>
\* writeText resolves: the `.then` callback.
ClipboardOk ==
  /\ ~effectPending
  /\ copying # <<>>
  /\ clipboard' = Head(copying)
  /\ copying' = Tail(copying)
  /\ isCopied' = TRUE
  /\ copyTimeouts' = copyTimeouts + 1
  /\ UNCHANGED <<sess, refs, devs, io, loc, effectPending, shareClicks, linked,
                 unhandled>>
  /\ UNCHANGED <<adm, db, viz>>

\* writeText rejects: the promise returned by `.then` has no rejection
\* handler, and the try block of handleShare was left long ago.
ClipboardFail ==
  /\ ~effectPending
  /\ copying # <<>>
  /\ copying' = Tail(copying)
  /\ unhandled' = TRUE
  /\ UNCHANGED <<sess, refs, devs, io, loc, effectPending, isCopied,
                 copyTimeouts, shareClicks, clipboard, linked>>
  /\ UNCHANGED <<adm, db, viz>>

\* A timeout of a successful copy fires: setIsCopied(false).
CopyTimeout ==
  /\ ~effectPending
  /\ copyTimeouts > 0
  /\ copyTimeouts' = copyTimeouts - 1
  /\ isCopied' = FALSE
  /\ UNCHANGED <<sess, refs, devs, io, loc, effectPending, copying,
                 shareClicks, clipboard, linked, unhandled>>
  /\ UNCHANGED <<adm, db, viz>>

\* The page is loaded at `/?share=<s>`: a new App is mounted.  The store and
\* the clipboard outlive the page; its promises and timers do not.
PageLoad(s) ==
  /\ appState' = "IDLE"
  /\ stream' = Null
  /\ audioBlob' = NoBlob
  /\ analysis' = NoAnalysis
  /\ errorMsg' = ""
  /\ timer' = 0
  /\ mediaRecorderRef' = Null
  /\ chunksRef' = 0
  /\ timerIntervalRef' = Null
  /\ acq' = [i \in Ids |-> "none"]
  /\ acqStream' = [i \in Ids |-> Null]
  /\ recorder' = [i \in Ids |-> "none"]
  /\ track' = [i \in Ids |-> "none"]
  /\ interval' = [i \in Ids |-> "none"]
  /\ call' = [i \in Ids |-> NoCall]
  /\ nextId' = 1
  /\ pathname' = "/"
  /\ hash' = ""
  /\ share' = s
  /\ effectPending' = TRUE
  /\ isCopied' = FALSE
  /\ copying' = <<>>
  /\ copyTimeouts' = 0
  /\ shareClicks' = 0
  /\ unhandled' = FALSE
  /\ UNCHANGED <<store, clipboard>>
  /\ UNCHANGED <<adm, db, viz>>

\* The link on the clipboard is opened.
OpenLink ==
  /\ clipboard # NoLink
  /\ PageLoad(clipboard.text)
  /\ linked' = clipboard.of

\* Links that did not come from handleShare: a score that is a string, no
\* metrics, a link cut short, text that is not base64.
ForeignLinks ==
  {encodeShare([overallScore |-> <<QUOTE, 120, QUOTE>>,
                metrics |-> MetricsText, text |-> <<>>]),
   encodeShare([overallScore |-> digits(74), metrics |-> <<>>, text |-> <<>>]),
   SubSeq(encodeShare(Complete(74)), 1, 5),
   <<BANG>>}

\* A link from elsewhere is opened.
OpenUrl(s) ==
  /\ PageLoad(s)
  /\ linked' = NoAnalysis

\* The characters of the text fields: '>', '?' and a CJK character.
TextChars == {62, 63, 20320}
Texts == UNION {[1..n -> TextChars] : n \in 0..MaxText}

\* The analyses whose sharing is examined.
ShareResults ==
  {[overallScore |-> digits(n), metrics |-> MetricsText, text |-> t] :
     n \in 0..MaxScore, t \in Texts}

\* The session showing the result `analysis` of its first recording: the
\* recording was stopped by the button before the first tick, its chunk was
\* analysed and initDB failed in saveRecord.
InitShare ==
  /\ appState = "RESULT"
  /\ stream = 1
  /\ audioBlob = 1
  /\ analysis \in ShareResults
  /\ errorMsg = ""
  /\ timer = 0
  /\ mediaRecorderRef = 1
  /\ chunksRef = 1
  /\ timerIntervalRef = 1
  /\ acq = [i \in Ids |-> IF i = 1 THEN "done" ELSE "none"]
  /\ acqStream = [i \in Ids |-> Null]
  /\ recorder = [i \in Ids |-> IF i = 1 THEN "inactive" ELSE "none"]
  /\ track = [i \in Ids |-> IF i = 1 THEN "ended" ELSE "none"]
  /\ interval = [i \in Ids |-> IF i = 1 THEN "cleared" ELSE "none"]
  /\ call = [i \in Ids |-> IF i = 1 THEN Returned ELSE NoCall]
  /\ store = {}
  /\ nextId = 2
  /\ pathname = "/"
  /\ hash = ""
  /\ share = <<>>
  /\ effectPending = FALSE
  /\ isCopied = FALSE
  /\ copying = <<>>
  /\ copyTimeouts = 0
  /\ shareClicks = 0
  /\ clipboard = NoLink
  /\ linked = NoAnalysis
  /\ unhandled = FALSE
  /\ now = 0
  /\ drawn = {}
  /\ records = <<>>
  /\ loading = TRUE
  /\ loadCalls = 0
  /\ delCalls = <<>>
  /\ dbVersion = DB_VERSION
  /\ dbStores = {STORE_NAME}
  /\ vizMounted = FALSE
  /\ vizStream = Null
  /\ sourceRef = Null
  /\ animationFrameRef = <<>>
  /\ frames = {}

\* The visitor who looks at results and shares them: the microphone, when
\* asked for again, is refused.
NextShare ==
  \/ RunEffect
  \/ \E h \in Hashes : HashChange(h)
  \/ StartClick
  \/ \E i \in Ids : AcquireDenied(i)
  \/ resetApp
  \/ handleShare
  \/ ClipboardOk
  \/ ClipboardFail
  \/ CopyTimeout
  \/ OpenLink
  \/ \E s \in ForeignLinks : OpenUrl(s)

SpecShare == InitShare /\ [][NextShare]_vars

\* The sharing session of one result, with the scheduling of the browser:
\* React runs every pending effect, and a timeout that was set fires (two
\* seconds later, whatever was committed in between).
InitCopy ==
  /\ InitShare
  /\ analysis = Complete(74)

SpecCopy ==
  /\ InitCopy
  /\ [][NextShare]_vars
  /\ WF_vars(RunEffect)
  /\ SF_vars(CopyTimeout)

\* The session with no manual stop, reset or navigation: the user starts
\* recordings and then leaves the page alone.  Intervals keep firing while they
\* are live and React runs every pending effect.
NextAuto ==
  \/ RunEffect
  \/ StartClick
  \/ \E i \in Ids : AcquireOk(i)
  \/ \E i \in Ids : AcquireOkRecorderThrows(i)
  \/ \E i \in Ids : AcquireDenied(i)
  \/ \E i \in Ids : TimerTick(i)
  \/ \E i \in Ids, hasData \in BOOLEAN : RecorderStopped(i, hasData)
  \/ \E i \in Ids, resp \in Responses : AnalyzeDone(i, resp)
  \/ \E i \in Ids : OpenFail(i)
  \/ \E i \in Ids, ip \in IpResults : WriteOk(i, ip)
  \/ \E i \in Ids : WriteFail(i)

SpecAuto ==
  /\ Init
  /\ [][NextAuto]_vars
  /\ WF_vars(RunEffect)
  /\ \A i \in Ids : WF_vars(TimerTick(i))

----------------------------------------------------------------------------
\* The access_logs store and the dashboard that lists it.

RecordIds == 1..MaxRecords

\* store.getAll(): the records in the order of their keys.
getAll(S) ==
  LET f[T \in SUBSET S] ==
        IF T = {} THEN <<>>
        ELSE LET r == CHOOSE r \in T : \A q \in T : r.id <= q.id
             IN  <<r>> \o f[T \ {r}]
  IN  f[S]

\* Mutant of sortNewestFirst: the results are returned as getAll gave them.
sortOmitted(rs) == rs
\* `results.sort((a, b) => b.timestamp - a.timestamp)`: a stable sort, each
\* record placed behind those that are not older.
sortNewestFirst(rs) ==
  LET place(q, r) ==
        LET k == Cardinality({i \in DOMAIN q : q[i].timestamp >= r.timestamp})
        IN  SubSeq(q, 1, k) \o <<r>> \o SubSeq(q, k + 1, Len(q))
      f[i \in 0..Len(rs)] ==
        IF i = 0 THEN <<>> ELSE place(f[i - 1], rs[i])
  IN  f[Len(rs)]

\* The clock advances.
Tick ==
  /\ now < MaxTime
  /\ now' = now + 1
  /\ UNCHANGED <<db, viz>>
  /\ UNCHANGED <<sess, refs, devs, io, loc, effectPending, shr, drawn,
                 records, loading, loadCalls, delCalls>>

\* Mutant of SaveElsewhere: the record is written with `put` under a key that
\* may be in use.
SaveElsewherePut(id, ip) ==
  /\ Cardinality(drawn) < MaxRecords
  /\ drawn' = drawn \cup {id}
  /\ store' = {r \in store : r.id # id} \cup {record(id, Complete(74), ip)}
  /\ UNCHANGED <<db, viz>>
  /\ UNCHANGED <<sess, refs, devs, call, loc, effectPending, shr, now,
                 records, loading, loadCalls, delCalls>>
\* saveRecord run to its end by a session in another tab of the browser: the
\* record of an analysis, under a fresh id, is added to the store.
SaveElsewhere(id, ip) ==
  /\ id \notin drawn
  /\ drawn' = drawn \cup {id}
  /\ store' = store \cup {record(id, Complete(74), ip)}
  /\ UNCHANGED <<db, viz>>
  /\ UNCHANGED <<sess, refs, devs, call, loc, effectPending, shr, now,
                 records, loading, loadCalls, delCalls>>

\* getAllRecords of a loadRecords call: initDB resolves and getAll succeeds;
\* loadRecords goes on to setRecords(data) and setLoading(false).
LoadOk ==
  /\ loadCalls > 0
  /\ loadCalls' = loadCalls - 1
  /\ records' = sortNewestFirst(getAll(store))
  /\ loading' = FALSE
  /\ UNCHANGED <<db, viz>>
  /\ UNCHANGED <<sess, refs, devs, io, loc, effectPending, shr, now, drawn,
                 delCalls>>

\* initDB rejects: the catch of getAllRecords returns [].
LoadOpenFail ==
  /\ loadCalls > 0
  /\ loadCalls' = loadCalls - 1
  /\ records' = <<>>
  /\ loading' = FALSE
  /\ UNCHANGED <<db, viz>>
  /\ UNCHANGED <<sess, refs, devs, io, loc, effectPending, shr, now, drawn,
                 delCalls>>

\* The getAll request fails: request.onerror rejects the promise that
\* getAllRecords returned without awaiting it, so its catch does not run;
\* `await getAllRecords()` throws in loadRecords, which has no catch, and
\* neither setRecords nor setLoading(false) is reached.
LoadReadFail ==
  /\ loadCalls > 0
  /\ loadCalls' = loadCalls - 1
  /\ unhandled' = TRUE
  /\ UNCHANGED <<db, viz>>
  /\ UNCHANGED <<sess, refs, devs, io, loc, effectPending, isCopied, copying,
                 copyTimeouts, shareClicks, clipboard, linked, now, drawn,
                 records, loading, delCalls>>

\* handleDelete up to its first await: the delete button of a row that is
\* shown, the confirm dialog accepted.
DeleteClick(id) ==
  /\ ~loading
  /\ \E k \in DOMAIN records : records[k].id = id
  /\ loadCalls + Len(delCalls) < MaxPending
  /\ delCalls' = Append(delCalls, id)
  /\ UNCHANGED <<db, viz>>
  /\ UNCHANGED <<sess, refs, devs, io, loc, effectPending, shr, now, drawn,
                 records, loading, loadCalls>>

\* Mutant of DeleteOk: the store is cleared.
DeleteOkClears ==
  /\ delCalls # <<>>
  /\ store' = {}
  /\ delCalls' = Tail(delCalls)
  /\ loading' = TRUE
  /\ loadCalls' = loadCalls + 1
  /\ UNCHANGED <<db, viz>>
  /\ UNCHANGED <<sess, refs, devs, call, loc, effectPending, shr, now, drawn,
                 records>>
\* deleteRecord resolves: store.delete(id) succeeded, whether or not a record
\* had that key; handleDelete goes on to loadRecords(), which runs up to its
\* await.
DeleteOk ==
  /\ delCalls # <<>>
  /\ store' = {r \in store : r.id # Head(delCalls)}
  /\ delCalls' = Tail(delCalls)
  /\ loading' = TRUE
  /\ loadCalls' = loadCalls + 1
  /\ UNCHANGED <<db, viz>>
  /\ UNCHANGED <<sess, refs, devs, call, loc, effectPending, shr, now, drawn,
                 records>>

\* deleteRecord rejects (initDB or the delete request fails): `await
\* deleteRecord(id)` throws in handleDelete, which has no catch.
DeleteFail ==
  /\ delCalls # <<>>
  /\ delCalls' = Tail(delCalls)
  /\ unhandled' = TRUE
  /\ UNCHANGED <<db, viz>>
  /\ UNCHANGED <<sess, refs, devs, io, loc, effectPending, isCopied, copying,
                 copyTimeouts, shareClicks, clipboard, linked, now, drawn,
                 records, loading, loadCalls>>

\* The page opened at '/#/admin', its first route check done: the dashboard
\* has mounted and its effect has called loadRecords.
DashboardMounted ==
  /\ appState = "ADMIN"
  /\ stream = Null
  /\ audioBlob = NoBlob
  /\ analysis = NoAnalysis
  /\ errorMsg = ""
  /\ timer = 0
  /\ mediaRecorderRef = Null
  /\ chunksRef = 0
  /\ timerIntervalRef = Null
  /\ acq = [i \in Ids |-> "none"]
  /\ acqStream = [i \in Ids |-> Null]
  /\ recorder = [i \in Ids |-> "none"]
  /\ track = [i \in Ids |-> "none"]
  /\ interval = [i \in Ids |-> "none"]
  /\ call = [i \in Ids |-> NoCall]
  /\ store = {}
  /\ nextId = 1
  /\ pathname = "/"
  /\ hash = "#/admin"
  /\ share = <<>>
  /\ effectPending = FALSE
  /\ isCopied = FALSE
  /\ copying = <<>>
  /\ copyTimeouts = 0
  /\ shareClicks = 0
  /\ clipboard = NoLink
  /\ linked = NoAnalysis
  /\ unhandled = FALSE
  /\ now = 0
  /\ drawn = {}
  /\ records = <<>>
  /\ loading = TRUE
  /\ loadCalls = 1
  /\ delCalls = <<>>
  /\ vizMounted = FALSE
  /\ vizStream = Null
  /\ sourceRef = Null
  /\ animationFrameRef = <<>>
  /\ frames = {}

\* The dashboard over a database this version of the page has opened before.
InitStore ==
  /\ DashboardMounted
  /\ dbVersion = DB_VERSION
  /\ dbStores = {STORE_NAME}

\* The dashboard left open while sessions elsewhere save their records.
NextStore ==
  \/ Tick
  \/ \E id \in RecordIds, ip \in IpResults : SaveElsewhere(id, ip)
  \/ LoadOk
  \/ LoadOpenFail
  \/ LoadReadFail
  \/ \E id \in RecordIds : DeleteClick(id)
  \/ DeleteOk
  \/ DeleteFail

SpecStore == InitStore /\ [][NextStore]_vars

\* Mutant of onupgradeneeded: createObjectStore is called without looking
\* whether the store is there (ConstraintError when it is: <<>> stands for
\* the exception).
onupgradeneededUnguarded(S) ==
  IF STORE_NAME \in S THEN <<>> ELSE <<(S \ {OldStore}) \cup {STORE_NAME}>>
\* request.onupgradeneeded on a database with the object stores S: the one
\* result, the stores after it, or <<>> when a call throws and the upgrade
\* transaction aborts.
onupgradeneeded(S) ==
  LET dropped == IF OldStore \in S THEN S \ {OldStore} ELSE S
  IN  <<IF STORE_NAME \notin dropped THEN dropped \cup {STORE_NAME}
        ELSE dropped>>

\* indexedDB.open(DB_NAME, DB_VERSION) on a database of version v with the
\* stores S: an older version is upgraded, the same version is opened as it
\* is, a newer one is refused (VersionError).
initDB(v, S) ==
  IF v = DB_VERSION THEN [ok |-> TRUE, version |-> v, stores |-> S]
  ELSE IF v > DB_VERSION \/ onupgradeneeded(S) = <<>>
  THEN [ok |-> FALSE, version |-> v, stores |-> S]
  ELSE [ok |-> TRUE, version |-> DB_VERSION, stores |-> onupgradeneeded(S)[1]]

\* The database is open at this version of the page.
Opened == dbVersion = DB_VERSION

\* The initDB of the first getAllRecords of the dashboard, over a database of
\* an earlier version: it resolves with the database upgraded, or rejects and
\* the catch of getAllRecords gives loadRecords an empty list.
OpenDB ==
  /\ ~Opened
  /\ loadCalls > 0
  /\ LET r == initDB(dbVersion, dbStores) IN
       IF r.ok
       THEN /\ dbVersion' = r.version
            /\ dbStores' = r.stores
            /\ UNCHANGED <<records, loading, loadCalls>>
       ELSE /\ records' = <<>>
            /\ loading' = FALSE
            /\ loadCalls' = loadCalls - 1
            /\ UNCHANGED db
  /\ UNCHANGED <<sess, refs, devs, io, loc, effectPending, shr, now, drawn,
                 delCalls, viz>>

\* The layouts a database left by an earlier version of the page can have.
OldLayouts ==
  {[version |-> 0, stores |-> {}]}
    \cup {[version |-> v, stores |-> S] :
            v \in 1..(DB_VERSION - 1), S \in SUBSET {OldStore, STORE_NAME}}

\* The dashboard over a database left by an earlier version of the page.
InitOpen ==
  /\ DashboardMounted
  /\ \E l \in OldLayouts : dbVersion = l.version /\ dbStores = l.stores

\* The dashboard of SpecStore, every request of which waits for the
\* database to be open.
NextOpen ==
  \/ OpenDB
  \/ Tick
  \/ Opened /\ \E id \in RecordIds, ip \in IpResults : SaveElsewhere(id, ip)
  \/ Opened /\ LoadOk
  \/ Opened /\ LoadOpenFail
  \/ Opened /\ LoadReadFail
  \/ Opened /\ \E id \in RecordIds : DeleteClick(id)
  \/ Opened /\ DeleteOk
  \/ Opened /\ DeleteFail

SpecOpen == InitOpen /\ [][NextOpen]_vars

----------------------------------------------------------------------------
\* The Visualizer, rendered in RECORDING with the `stream` of the App.  An
\* animation frame id is <<l, k>>: the k-th request of the draw loop sampling
\* stream l, k counted modulo MaxFrames.

\* The effect of the Visualizer has work to do: the component was mounted or
\* unmounted by the last commit, or its `stream` prop changed.
VizDue ==
  \/ vizMounted # (appState = "RECORDING")
  \/ vizMounted /\ vizStream # stream

\* Mutant of cleanup: the pending frame is not cancelled.
cleanupKeepsFrame(fs) == fs
\* The cleanup an effect run returned, on the pending frames fs:
\* `if (animationFrameRef.current) cancelAnimationFrame(...)`.  An effect run
\* that found no stream returned none.
cleanup(fs) ==
  IF vizMounted /\ vizStream # Null /\ animationFrameRef # <<>>
  THEN fs \ {animationFrameRef}
  ELSE fs

\* useEffect(..., [stream, isRecording]) of the Visualizer and its cleanup:
\* the cleanup of the last run, then on a mounted component with a stream
\* the source node is connected and draw() is called, which requests the
\* first frame.
VizEffect ==
  /\ VizDue
  /\ vizMounted' = (appState = "RECORDING")
  /\ IF appState = "RECORDING"
     THEN /\ vizStream' = stream
          /\ IF stream # Null
             THEN /\ sourceRef' = stream
                  /\ animationFrameRef' = <<stream, 0>>
                  /\ frames' = cleanup(frames) \cup {<<stream, 0>>}
             ELSE /\ UNCHANGED <<sourceRef, animationFrameRef>>
                  /\ frames' = cleanup(frames)
     ELSE /\ vizStream' = Null
          /\ sourceRef' = Null
          /\ animationFrameRef' = <<>>
          /\ frames' = cleanup(frames)
  /\ UNCHANGED <<sess, refs, devs, io, loc, effectPending, shr, adm, db>>

\* The animation frame f fires: draw requests the next frame, keeps its id
\* in animationFrameRef and reads the analyser.
Frame(f) ==
  /\ f \in frames
  /\ LET next == <<f[1], (f[2] + 1) % MaxFrames>>
     IN /\ animationFrameRef' = next
        /\ frames' = (frames \ {f}) \cup {next}
  /\ UNCHANGED <<vizMounted, vizStream, sourceRef>>
  /\ UNCHANGED <<sess, refs, devs, io, loc, effectPending, shr, adm, db>>

\* The page opened at '/', with no share parameter.
InitViz ==
  /\ Init
  /\ pathname = "/"
  /\ share = <<>>

\* The recording session with its Visualizer: the effects of a commit, the
\* child's first, run before the next event; animation frames fire at any
\* time.
NextViz ==
  \/ VizEffect
  \/ \E f \in frames : Frame(f)
  \/ ~VizDue /\ Next

SpecViz == InitViz /\ [][NextViz]_vars

----------------------------------------------------------------------------
\* Claims.

\* C1: on every RECORDING -> PROCESSING transition, manual or timer-driven, the
\* track of the stream acquired for the recording that is stopped (the stream
\* of the current recorder) is no longer live.
C1_TracksStoppedOnStop ==
  [][(appState = "RECORDING" /\ appState' = "PROCESSING")
       => track'[mediaRecorderRef] # "live"]_vars

\* C2: a handleAnalysis call whose analyzeVoice succeeded ends with the session
\* in RESULT, whatever initDB, getIP or store.add did.
C2_SaveFailureKeepsResult ==
  [][\A i \in Ids :
       (call[i].pc = "save" /\ call'[i].pc = "done")
         => appState' = "RESULT"]_vars

\* C3: the tick on which the timer reaches the cap moves the session from
\* RECORDING to PROCESSING.
C3_StopOnTickReachingCap ==
  [][(appState = "RECORDING" /\ timer < CAP /\ timer' = CAP)
       => appState' = "PROCESSING"]_vars

\* C4: the timer is 0 on entry to RECORDING, never decreases while the session
\* stays in RECORDING, and is always within 0..CAP.
C4_TimerResetMonotoneBounded ==
  [][/\ (appState # "RECORDING" /\ appState' = "RECORDING") => timer' = 0
     /\ (appState = "RECORDING" /\ appState' = "RECORDING") => timer' >= timer
     /\ timer' \in 0..CAP]_vars

\* C5: with no manual stop, a session in RECORDING reaches PROCESSING by timer
\* ticks alone.
C5_CapEnforcedByTimer ==
  (appState = "RECORDING") ~> (appState = "PROCESSING")

\* C5 witness: a timer-driven stop has happened (there is no other stop in
\* SpecAuto): the recorder was stopped at the cap and the session is PROCESSING.
C5_Witness ==
  /\ appState = "PROCESSING"
  /\ timer = CAP
  /\ mediaRecorderRef # Null
  /\ recorder[mediaRecorderRef] = "stopping"
  /\ interval[timerIntervalRef] = "cleared"

\* C6: a manual stop in RECORDING below the cap moves the session to PROCESSING
\* in that step, stops the current recorder (which was recording) and clears the
\* current interval, leaving the timer where it was.
C6_ManualStopImmediate ==
  [][(ManualStop /\ timer < CAP)
       => /\ appState' = "PROCESSING"
          /\ mediaRecorderRef # Null
          /\ recorder[mediaRecorderRef] = "recording"
          /\ recorder'[mediaRecorderRef] = "stopping"
          /\ timerIntervalRef # Null
          /\ interval'[timerIntervalRef] = "cleared"
          /\ timer' = timer]_vars

\* C6 witness: below the cap only a manual stop can have stopped the recorder;
\* the session is PROCESSING with the recorder stopped and the interval cleared.
C6_Witness ==
  /\ appState = "PROCESSING"
  /\ timer < CAP
  /\ timer > 0
  /\ mediaRecorderRef # Null
  /\ recorder[mediaRecorderRef] = "stopping"
  /\ interval[timerIntervalRef] = "cleared"

\* A call of stopRecording: the stop button, or an interval callback at the cap.
StopCalled ==
  \/ ManualStop
  \/ \E i \in Ids : (capReached(timer) /\ TimerTick(i))

\* C7: the two stops are mutually idempotent: a recorder is stopped once and
\* gets one analyze() call, and a stop that finds the current recorder already
\* stopped changes nothing.
C7_StopsIdempotent ==
  [][/\ \A i \in Ids :
          /\ recorder[i] \in {"stopping", "inactive"}
               => recorder'[i] # "recording"
          /\ (call[i].pc # "none" /\ call[i].pc # "analyze")
               => call'[i].pc # "analyze"
     /\ (StopCalled /\ mediaRecorderRef # Null
           /\ recorder[mediaRecorderRef] # "recording")
          => UNCHANGED vars]_vars

\* A stopped recording whose handleAnalysis has not finished: the recorder's
\* stop event is queued, or analyzeVoice or saveRecord is awaited.
Outstanding(i) ==
  \/ recorder[i] = "stopping"
  \/ call[i].pc \in {"analyze", "save"}

\* C8: never two analyze() calls in flight, and in PROCESSING a stopped
\* recording is being analysed.
C8_OneAnalysisInFlight ==
  /\ Cardinality({i \in Ids : call[i].pc = "analyze"}) <= 1
  /\ appState = "PROCESSING" => \E i \in Ids : Outstanding(i)

\* C9: in PROCESSING no reset, start or stop changes the session state, and
\* PROCESSING is left only to RESULT or ERROR (or to ADMIN by the admin route).
C9_ProcessingUninterruptible ==
  [][appState = "PROCESSING"
       => /\ (resetApp \/ StartClick \/ ManualStop) => appState' = "PROCESSING"
          /\ appState' \in {"PROCESSING", "RESULT", "ERROR", "ADMIN"}]_vars

\* The transitions of the session state machine as listed.
ListedTransitions ==
  {<<"IDLE", "RECORDING">>, <<"IDLE", "ERROR">>, <<"RECORDING", "PROCESSING">>,
   <<"PROCESSING", "RESULT">>, <<"PROCESSING", "ERROR">>, <<"RESULT", "IDLE">>,
   <<"ERROR", "IDLE">>, <<"IDLE", "RESULT">>, <<"ADMIN", "IDLE">>}
    \cup {<<s, "ADMIN">> : s \in AppStates}

\* C10: every change of appState is one of the listed transitions.
C10_OnlyListedTransitions ==
  [][appState' # appState => <<appState, appState'>> \in ListedTransitions]_vars

\* C11: when the response text is JSON that lacks a schema field, the
\* analysis call fails: the step that settles it moves the session to ERROR
\* and no such object becomes the session's analysis.
C11_PartialPayloadIsFailure ==
  [][\A i \in Ids :
       AnalyzeDone(i, "partial") =>
         appState' = "ERROR" /\ analysis' # Partial]_vars

\* The ways analyzeVoice fails.
AnalyzerFailures == {"encodeError", "apiError", "emptyText", "badJson"}

\* C12: every failure of analyzeVoice moves the session to ERROR with the
\* generic analysis message, leaves the store alone and ends the call, and
\* no record is ever stored for a failed call.
C12_AnalyzerFailureToError ==
  /\ [](\A i \in Ids :
          call[i].pc = "failed" => \A r \in store : r.id # i)
  /\ [][\A i \in Ids, resp \in AnalyzerFailures :
          AnalyzeDone(i, resp) =>
            /\ appState' = "ERROR"
            /\ errorMsg' = "errorAnalysis"
            /\ store' = store
            /\ call'[i].pc = "failed"]_vars

\* A failed analysis met in PROCESSING, shown as ERROR.
C12_Witness ==
  /\ \E i \in Ids : call[i].pc = "failed"
  /\ appState = "ERROR"
  /\ errorMsg = "errorAnalysis"
  /\ ~effectPending
  /\ store = {}

\* C13: a refused microphone request moves the session to ERROR with the
\* microphone message; the refused request never has a stream, a recorder, a
\* timer, an analysis call or a record, and while it is the only request made
\* the session is in neither RECORDING nor PROCESSING.
C13_MicDeniedToError ==
  /\ [](\A i \in Ids :
          acq[i] = "denied" =>
            /\ track[i] = "none"
            /\ recorder[i] = "none"
            /\ interval[i] = "none"
            /\ call[i].pc = "none"
            /\ \A r \in store : r.id # i
            /\ (\A j \in Ids \ {i} : acq[j] = "none")
                 => appState \notin {"RECORDING", "PROCESSING"} /\ store = {})
  /\ [][\A i \in Ids :
          AcquireDenied(i) =>
            appState' = "ERROR" /\ errorMsg' = "errorMic" /\ store' = store]_vars

\* The microphone was refused and the error is on screen.
C13_Witness ==
  /\ \E i \in Ids : acq[i] = "denied"
  /\ appState = "ERROR"
  /\ errorMsg = "errorMic"
  /\ ~effectPending

\* C14: ERROR is left only by resetApp, to IDLE (the admin route, which the
\* route check applies in every state, is set aside).
C14_ErrorLeftOnlyByReset ==
  [][(appState = "ERROR" /\ appState' \notin {"ERROR", "ADMIN"})
       => (resetApp /\ appState' = "IDLE")]_vars

\* C15: once the route effect of a commit has run, a session that is not in
\* RESULT holds no analysis.
C15_AnalysisOnlyInResult ==
  (~effectPending /\ appState # "RESULT") => analysis = NoAnalysis

\* C16: once the route effect of a commit has run, a session that is not in
\* ERROR holds no error message.
C16_ErrorMsgOnlyInError ==
  (~effectPending /\ appState # "ERROR") => errorMsg = ""

\* C17: resetApp in RESULT or ERROR leaves the session IDLE with analysis,
\* audio, stream, error message and copied flag cleared and a location with
\* neither a share parameter nor an admin marker, and the route effect that
\* follows changes none of these.
C17_ResetClearsSession ==
  [][/\ (resetApp /\ appState \in {"RESULT", "ERROR"}) =>
          /\ appState' = "IDLE"
          /\ analysis' = NoAnalysis
          /\ audioBlob' = NoBlob
          /\ stream' = Null
          /\ errorMsg' = ""
          /\ isCopied' = FALSE
          /\ share' = <<>>
          /\ ~includesAdmin(pathname', hash')
     /\ (RunEffect /\ appState = "IDLE" /\ share = <<>>
           /\ ~includesAdmin(pathname, hash)) =>
          UNCHANGED <<sess, loc, isCopied>>]_vars

\* Just after a reset that took away the acknowledgment of a copy: the
\* timeout of the copy is still pending.
C17_Witness ==
  /\ appState = "IDLE"
  /\ effectPending
  /\ shareClicks > 0
  /\ copyTimeouts > 0
  /\ ~isCopied
  /\ analysis = NoAnalysis
  /\ share = <<>>

\* C18 as stated: every handleAnalysis call whose analyzeVoice succeeded has
\* added exactly one record when it returns.
C18_RecordIffAnalyzeSucceeds ==
  [][\A i \in Ids :
       (call[i].pc = "save" /\ call'[i].pc = "done")
         => Cardinality(store') = Cardinality(store) + 1]_vars

\* C18 amended: the store changes only when the save of a successful analysis
\* completes, by exactly the one record of that call; a save that completes
\* adds one record; no call has two records.
C18_RecordOnlyOnSavedAnalysis ==
  /\ [](\A i \in Ids :
          /\ Cardinality({r \in store : r.id = i}) <= 1
          /\ (\E r \in store : r.id = i) => call[i].pc = "done")
  /\ [][/\ store' # store =>
              \E i \in Ids, ip \in IpResults :
                /\ call[i].pc = "save"
                /\ call[i].result # NoAnalysis
                /\ call'[i].pc = "done"
                /\ VoiceRecord(i, ip) \notin store
                /\ store' = store \cup {VoiceRecord(i, ip)}
        /\ \A j \in Ids, ip \in IpResults :
              WriteOk(j, ip) => Cardinality(store') = Cardinality(store) + 1]_vars

\* A saved analysis on screen.
C18_Witness ==
  /\ appState = "RESULT"
  /\ ~effectPending
  /\ \E r \in store : r.analysis = analysis

\* C19: on mount in IDLE at a non-admin location with a share parameter, the
\* session enters RESULT exactly when the parameter decodes to an object with
\* a numeric overallScore and metrics; it then holds the decoded object, and
\* no analysis call or record comes of it.
C19_AdoptsNumericScore ==
  [][(/\ RunEffect
      /\ appState = "IDLE"
      /\ share # <<>>
      /\ ~isPathAdmin(pathname)
      /\ ~isHashAdmin(hash)) =>
       /\ appState' = "RESULT" <=>
            /\ ~decodeThrows(searchParamsGet(share))
            /\ isNumber(decodeShare(searchParamsGet(share)).overallScore)
            /\ decodeShare(searchParamsGet(share)).metrics # <<>>
       /\ appState' = "RESULT" =>
            /\ analysis' = decodeShare(searchParamsGet(share))
            /\ UNCHANGED <<call, store>>]_vars

\* C20: a page opened by the link that handleShare made of an analysis whose
\* score is not 0 enters RESULT on mount with the score and the metrics of
\* that analysis.
C20_ShareRoundTrip ==
  [][(/\ RunEffect
      /\ appState = "IDLE"
      /\ share # <<>>
      /\ linked # NoAnalysis
      /\ linked.overallScore # digits(0)) =>
       /\ appState' = "RESULT"
       /\ analysis'.overallScore = linked.overallScore
       /\ analysis'.metrics = linked.metrics]_vars

\* C21: on mount in IDLE at a non-admin location with a share parameter that
\* is not adopted, the session stays IDLE and the location becomes the bare
\* root: path '/', no fragment, no share parameter.
C21_NotAdoptedCleansLocation ==
  [][(/\ RunEffect
      /\ appState = "IDLE"
      /\ share # <<>>
      /\ ~isPathAdmin(pathname)
      /\ ~isHashAdmin(hash)
      /\ appState' # "RESULT") =>
       /\ appState' = "IDLE"
       /\ pathname' = "/"
       /\ hash' = ""
       /\ share' = <<>>]_vars

\* A step of the route check, on mount, after a commit or on hashchange, that
\* adopts the share payload.
RouteAdopts ==
  /\ RunEffect \/ \E h \in Hashes : HashChange(h)
  /\ appState # "RESULT"
  /\ appState' = "RESULT"

\* The session as the mount of the page leaves it, its first route check still
\* to run.
AtEntry ==
  /\ appState = "IDLE"
  /\ effectPending
  /\ analysis = NoAnalysis
  /\ audioBlob = NoBlob
  /\ stream = Null
  /\ errorMsg = ""
  /\ timer = 0
  /\ nextId = 1
  /\ \A i \in Ids : acq[i] = "none" /\ call[i] = NoCall
  /\ shareClicks = 0
  /\ copying = <<>>
  /\ ~isCopied

\* The browser loads the page anew.
NewPage == OpenLink \/ \E s \in ForeignLinks : OpenUrl(s)

\* C22: the route check adopts a share payload only in the first check of a
\* freshly mounted IDLE session; within one page load every reset and every
\* return to IDLE removes the share parameter and no step brings one in, so
\* no later route check or hashchange adopts again.
C22_AdoptionOnlyAtEntry ==
  [][/\ RouteAdopts => (AtEntry /\ share # <<>>)
     /\ (~NewPage /\ (resetApp \/ (appState # "IDLE" /\ appState' = "IDLE")))
          => share' = <<>>
     /\ (~NewPage /\ share' # share) => share' = <<>>]_vars

\* An adopted result left for the dashboard and the fragment then removed: the
\* route check has run again, on the commit and on hashchange, with the
\* adoptable parameter still in the location.
C22_Witness ==
  /\ appState = "ADMIN"
  /\ ~effectPending
  /\ pathname = "/"
  /\ hash = ""
  /\ analysis # NoAnalysis
  /\ share # <<>>
  /\ ~decodeThrows(searchParamsGet(share))
  /\ adoptable(searchParamsGet(share))

\* C23: a route check on mount or after a commit at a location with an admin
\* marker, and a hashchange that leaves the location with one, puts the
\* session in ADMIN whatever its state; a share parameter in the location is
\* neither adopted nor removed.
C23_AdminRouteWins ==
  [][/\ (RunEffect /\ (isPathAdmin(pathname) \/ isHashAdmin(hash))) =>
          /\ appState' = "ADMIN"
          /\ analysis' = analysis
          /\ UNCHANGED loc
     /\ \A h \in Hashes :
          (HashChange(h) /\ (isPathAdmin(pathname) \/ isHashAdmin(h))) =>
            /\ appState' = "ADMIN"
            /\ analysis' = analysis
            /\ hash' = h
            /\ UNCHANGED <<pathname, share>>]_vars

\* The dashboard reached by '#admin' from a recording in progress, with a
\* share parameter in the location.
C23_Witness ==
  /\ appState = "ADMIN"
  /\ ~effectPending
  /\ hash = "#admin"
  /\ share # <<>>
  /\ \E i \in Ids : recorder[i] = "recording"

\* C24: a successful copy sets the acknowledgment, and an acknowledgment that
\* is showing is eventually taken away again, whatever else happens.
C24_CopiedReverts ==
  /\ [][ClipboardOk => isCopied']_vars
  /\ (isCopied ~> ~isCopied)

\* Two copies of the result on screen have succeeded and the timeout of the
\* first has taken the acknowledgment away; the timeout of the second is
\* pending.
C24_Witness ==
  /\ appState = "RESULT"
  /\ shareClicks = 2
  /\ copying = <<>>
  /\ copyTimeouts = 1
  /\ ~isCopied

\* C25: when the clipboard write of a share link fails, the failure is
\* handled: no rejection is left unhandled, and the session (state, analysis,
\* the other fields) and the copied flag are as before.
C25_ClipboardFailureCaught ==
  [][ClipboardFail => (~unhandled' /\ UNCHANGED <<sess, isCopied>>)]_vars

\* C26: the rows a successful getAllRecords gives the dashboard are the
\* records of the store, each exactly once, and no row is older than the row
\* after it.
C26_ListAllNewestFirst ==
  [][LoadOk =>
       /\ Range(records') = store
       /\ Len(records') = Cardinality(store)
       /\ \A k \in 1..(Len(records') - 1) :
            records'[k].timestamp >= records'[k + 1].timestamp]_vars

\* Three records listed, two of one instant and an older one, the oldest
\* being the record with the smallest key, which getAll gives first.
C26_Witness ==
  /\ ~loading
  /\ Len(records) = 3
  /\ records[3].id = 1
  /\ records[1].timestamp = records[2].timestamp
  /\ records[2].timestamp > records[3].timestamp
  /\ Range(records) = store

\* C27: a getAllRecords call that fails, at the open or at the read request,
\* gives the dashboard an empty list and raises nothing, so that loading
\* ends; a deleteRecord call that fails leaves the store as it was; none of
\* them touches the session.
C27_ListFailureIsEmptyResult ==
  [][/\ (LoadOpenFail \/ LoadReadFail) =>
          /\ records' = <<>>
          /\ ~loading'
          /\ unhandled' = unhandled
     /\ DeleteFail => store' = store
     /\ (LoadOpenFail \/ LoadReadFail \/ DeleteFail) => UNCHANGED sess]_vars

\* The keys in use in the store.
StoredIds == {r.id : r \in store}

\* C28: a deleteRecord(id) that succeeds leaves no record with that id and
\* every other record as it was (nothing changes when no record had the id),
\* and leaves the session alone; an id that was deleted is never stored
\* again, and a list loaded afterwards shows records of the store only.
C28_DeleteRemovesOnlyThatId ==
  [][/\ DeleteOk =>
          /\ Head(delCalls) \notin StoredIds'
          /\ \A r \in store : r.id # Head(delCalls) => r \in store'
          /\ store' \subseteq store
          /\ Head(delCalls) \notin StoredIds => store' = store
          /\ UNCHANGED sess
     /\ \A id \in drawn \ StoredIds : id \notin StoredIds'
     /\ LoadOk => \A k \in DOMAIN records' : records'[k] \in store]_vars

\* Of three records saved one has been deleted, and the list loaded after
\* the delete shows the other two.
C28_Witness ==
  /\ ~loading
  /\ Cardinality(drawn) = 3
  /\ Cardinality(store) = 2
  /\ Len(records) = 2
  /\ Range(records) = store
  /\ delCalls = <<>>
  /\ loadCalls = 0

\* C29: when getIP has failed and the store write succeeds, the save adds the
\* record of its analysis with 'Unknown IP' where the address would be.
C29_IpFailureStillSaves ==
  [][\A i \in Ids :
       WriteOk(i, "Unknown IP") =>
         \E r \in store' \ store :
           /\ r.id = i
           /\ r.ip = "Unknown IP"
           /\ r.analysis = call[i].result]_vars

\* The result on screen has been saved with the placeholder.
C29_Witness ==
  /\ appState = "RESULT"
  /\ ~effectPending
  /\ \E r \in store : r.ip = "Unknown IP" /\ r.analysis = analysis

\* C30: every record of the store has the fields id, timestamp, analysis, ip
\* and userAgent and no other, its analysis being an analysis object; no two
\* records share an id; and the store changes only by gaining a record under
\* an id not in use or by losing the record of one id, the records that stay
\* being as they were.
C30_RecordsNeverModified ==
  /\ [](\A r \in store :
          /\ DOMAIN r = {"id", "timestamp", "analysis", "ip", "userAgent"}
          /\ DOMAIN r.analysis = {"overallScore", "metrics", "text"}
          /\ \A q \in store : q.id = r.id => q = r)
  /\ [][store' # store =>
          \/ \E r \in store' : r.id \notin StoredIds /\ store' = store \cup {r}
          \/ \E id \in StoredIds : store' = {r \in store : r.id # id}]_vars

\* Records saved with and without an address, after a third was deleted.
C30_Witness ==
  /\ Cardinality(drawn) = 3
  /\ Cardinality(store) = 2
  /\ {r.ip : r \in store} = IpResults

\* C31: opening a database of an earlier version, whichever of the two
\* stores it has, succeeds and leaves it at the current version with the
\* access_logs store and without the assessments store.
C31_UpgradeFromAnyOldLayout ==
  [][OpenDB =>
       /\ dbVersion' = DB_VERSION
       /\ STORE_NAME \in dbStores'
       /\ OldStore \notin dbStores'
       /\ UNCHANGED <<records, loading, loadCalls>>]_vars

\* The dashboard lists records saved to a database that the page found at
\* an earlier version and upgraded.
C31_Witness ==
  /\ Opened
  /\ dbStores = {STORE_NAME}
  /\ ~loading
  /\ records # <<>>

\* C32: at no time is more than one recorder recording, more than one
\* stream live or more than one interval live, and a call of stopRecording
\* leaves no recorder recording and no interval live.
C32_OneCaptureActive ==
  /\ [](/\ Cardinality({i \in Ids : recorder[i] = "recording"}) <= 1
         /\ Cardinality({i \in Ids : track[i] = "live"}) <= 1
         /\ Cardinality({i \in Ids : interval[i] = "live"}) <= 1)
  /\ [][StopCalled =>
          \A i \in Ids :
            recorder'[i] # "recording" /\ interval'[i] # "live"]_vars


\* C33: in every state other than RECORDING, once the effects of the last
\* commit have run, no animation frame of the visualizer is pending; and no
\* step of the visualizer (its effect, its cleanup, a frame of its draw loop)
\* changes the chunk buffer, the finalized payload or a recorder.
C33_VisualizerStopsWithRecording ==
  /\ [](~VizDue /\ appState # "RECORDING" => frames = {})
  /\ [][VizEffect \/ (\E f \in frames : Frame(f)) =>
          UNCHANGED <<chunksRef, audioBlob, recorder>>]_vars

\* A recording was stopped into PROCESSING and the effect of the Visualizer
\* has run: it is unmounted with no frame pending.
C33_Witness ==
  /\ appState = "PROCESSING"
  /\ ~VizDue
  /\ \E i \in Ids : recorder[i] = "inactive"
  /\ frames = {}
  /\ ~vizMounted

\* C34: analyze() is never invoked with an empty payload: whenever a
\* handleAnalysis call starts (onstop builds the Blob from the chunk buffer
\* and passes it on), the Blob it was given holds at least one chunk.
C34_AnalyzeNeverGetsEmptyPayload ==
  [][(\E i \in Ids : call[i].pc # "analyze" /\ call'[i].pc = "analyze") =>
       audioBlob' > 0]_vars

\* C35: whenever the session is in RESULT an analysis is present.
C35_ResultHasAnalysis ==
  appState = "RESULT" => analysis # NoAnalysis


\* A handleAnalysis call in flight settles one of its awaits.
Completion ==
  \/ \E i \in Ids, resp \in Responses : AnalyzeDone(i, resp)
  \/ \E i \in Ids : OpenFail(i)
  \/ \E i \in Ids, ip \in IpResults : WriteOk(i, ip)
  \/ \E i \in Ids : WriteFail(i)

\* C36: the session is IDLE after a start only through resetApp, so a call in
\* flight or an interval live in IDLE was started before that reset: its
\* completion, or a tick of that interval, changes neither the state nor a
\* field of the session.
C36_StaleEventsLeaveResetSessionAlone ==
  [][appState = "IDLE" /\ (Completion \/ \E i \in Ids : TimerTick(i)) =>
       UNCHANGED sess]_vars


\* C37: the session is never left in PROCESSING with nothing to wait for: in
\* PROCESSING, once the route check of the commit has run, a recorder's stop
\* event is queued or an analyze() or save call is in flight, whose
\* completion takes the session to RESULT or ERROR.
C37_ProcessingAlwaysResolves ==
  appState = "PROCESSING" /\ ~effectPending =>
    \E i \in Ids : Outstanding(i)


\* C38: in every state other than RECORDING no microphone track is live and
\* no recorder is recording.
C38_NoCaptureOutsideRecording ==
  appState # "RECORDING" =>
    \A i \in Ids : track[i] # "live" /\ recorder[i] # "recording"

\* C39: at most one interval timer is live, and none outside RECORDING.
C39_OneTimerOnlyInRecording ==
  /\ Cardinality({i \in Ids : interval[i] = "live"}) <= 1
  /\ appState # "RECORDING" => \A i \in Ids : interval[i] # "live"


\* The location carries an admin marker, as checkRoute tests it.
AdminMarker == isPathAdmin(pathname) \/ isHashAdmin(hash)

\* C40: while the location keeps its admin marker ADMIN is sticky.  Once the
\* route check of a commit has run, the session at a marked location is in
\* ADMIN, whatever background event changed its state; the route check at a
\* marked location sets ADMIN; the marker goes only by resetApp or by an edit
\* of the fragment, and resetApp removes it and sets IDLE.
C40_AdminSticky ==
  /\ [](AdminMarker /\ ~effectPending => appState = "ADMIN")
  /\ [][/\ AdminMarker /\ RunEffect => appState' = "ADMIN"
        /\ AdminMarker /\ ~AdminMarker' =>
             resetApp \/ \E h \in Hashes : HashChange(h)
        /\ resetApp => ~AdminMarker' /\ appState' = "IDLE"]_vars

\* A save that finished behind the dashboard has set RESULT at a marked
\* location, and the route check of that commit is about to run.
C40_Witness ==
  /\ AdminMarker
  /\ appState = "RESULT"
  /\ effectPending
  /\ \E i \in Ids : call[i].pc = "done"


====
